---- MODULE Spec2Model ----
(***************************************************************************)
(* Appointment ledger (utils.py) and conversation controller (booking.py). *)
(*                                                                         *)
(* The ledger is a CSV file of rows (date, time, is_booked, purpose, name).*)
(* Every ledger function parses its date argument, reads the whole file,   *)
(* and (store / cancel) rewrites the whole file when a row changed.        *)
(***************************************************************************)
EXTENDS Integers, Sequences, FiniteSets, TLC

(***************************************************************************)
(* Bounds of the model.                                                    *)
(***************************************************************************)
MaxRows == 2

(***************************************************************************)
(* Strings.  A date string is modelled by the way it is written: its form  *)
(*   "ymd"   2025-05-30   year first, zero padded (the canonical form)     *)
(*   "ymd1"  2025-5-30    year first, not padded                           *)
(*   "dmy"   30-05-2025   year last                                        *)
(*   "text"  not-a-date   no date at all                                   *)
(* and the two numbers in it: d is the number written where that form has  *)
(* the day, m the one written where it has the month.  The year is 2025    *)
(* throughout.  Two date strings are the same string iff they are the same *)
(* record (the model's days have a one-digit month, so the padded and the  *)
(* unpadded writing of a day differ).                                      *)
(***************************************************************************)
DateStr(f, d, m) == [f |-> f, d |-> d, m |-> m]

NotADate == DateStr("text", 0, 0)

\* The calendar day a date string is the writing of.
DayOf(s) == [d |-> s.d, m |-> s.m]

ParseError == [d |-> 0, m |-> 0]

\* A calendar day that exists (the model's days lie in months of >= 30 days).
ValidDay(x) == x.m \in 1..12 /\ x.d \in 1..30

\* dateutil: parser.parse(date, dayfirst=True).  The three numbers a, b, c
\* of the string are resolved by position: with the year first, as
\* (year, day, month) when the last number is <= 12 and as (year, month, day)
\* otherwise; with the year last, as (day, month, year) when the first number
\* is > 12 or the second is <= 12 and as (month, day, year) otherwise.
ParseDayfirst(s) ==
    LET x == IF s.f \in {"ymd", "ymd1"}
                THEN IF s.d <= 12 THEN [d |-> s.m, m |-> s.d]
                                  ELSE [d |-> s.d, m |-> s.m]
             ELSE IF s.f = "dmy"
                THEN IF s.d > 12 \/ s.m <= 12 THEN [d |-> s.d, m |-> s.m]
                                              ELSE [d |-> s.m, m |-> s.d]
             ELSE ParseError
    IN  IF ValidDay(x) THEN x ELSE ParseError

\* pandas: pd.to_datetime on one entry of the column (dayfirst is False):
\* a year-first date is read as written, padded or not; a year-last one is
\* read month first unless its first number cannot be a month.
ToDatetime(s) ==
    LET x == IF s.f \in {"ymd", "ymd1"} THEN [d |-> s.d, m |-> s.m]
             ELSE IF s.f = "dmy"
                THEN IF s.d <= 12 THEN [d |-> s.m, m |-> s.d]
                                  ELSE [d |-> s.d, m |-> s.m]
             ELSE ParseError
    IN  IF ValidDay(x) THEN x ELSE ParseError

\* strftime("%Y-%m-%d")
Strftime(x) == DateStr("ymd", x.d, x.m)

\* str.lower() and str.strip() on the strings of the model.
Lower(s) ==
    CASE s = "True"    -> "true"
      [] s = "False"   -> "false"
      [] s = "Alice"   -> "alice"
      [] s = " alice " -> " alice "
      [] s = "Bob"     -> "bob"
      [] s = "BOB"     -> "bob"
      [] OTHER         -> s

Strip(s) ==
    CASE s = " alice " -> "alice"
      [] OTHER         -> s

(***************************************************************************)
(* Values of the model.                                                    *)
(***************************************************************************)
\* Date strings found in the file: 2025-05-30, 2025-5-30 and 2025-05-06.
StoredDates == {DateStr("ymd", 30, 5), DateStr("ymd1", 30, 5), DateStr("ymd", 6, 5)}

\* Date strings callers pass: 30-05-2025, 2025-06-05 and not-a-date.
DateArgs == {DateStr("dmy", 30, 5), DateStr("ymd", 5, 6), NotADate}

Times == {"10:00", "11:00"}
Purposes == {"dentist"}
BookNames == {"Bob"}
CancelNames == {" alice ", "BOB"}

Row(date, time, booked, purpose, name) ==
    [date |-> date, time |-> time, is_booked |-> booked,
     purpose |-> purpose, name |-> name]

\* Rows of the file at the start: free ones, and ones booked earlier.
InitNames == {"Alice"}

InitRows ==
    {Row(dt, t, "False", "", "") : dt \in StoredDates, t \in Times}
    \cup {Row(dt, t, "True", p, n) :
             dt \in StoredDates, t \in Times, p \in Purposes, n \in InitNames}

RECURSIVE SeqsUpTo(_, _)
SeqsUpTo(S, n) ==
    IF n = 0 THEN {<<>>}
    ELSE LET shorter == SeqsUpTo(S, n - 1)
         IN  shorter \cup {Append(q, x) : q \in {r \in shorter : Len(r) = n - 1}, x \in S}

\* The file: absent, or a header and rows.
File(exists, rows) == [exists |-> exists, rows |-> rows]
AbsentFile == File(FALSE, <<>>)

(***************************************************************************)
(* Results of a call.                                                      *)
(***************************************************************************)
RetBool(b) == [kind |-> "bool", b |-> b, l |-> <<>>]
RetList(l) == [kind |-> "list", b |-> FALSE, l |-> l]
Raise == [kind |-> "raise", b |-> FALSE, l |-> <<>>]

Range(q) == {q[i] : i \in 1..Len(q)}

(***************************************************************************)
(* utils.py: the ledger functions, as functions of the file's content.     *)
(***************************************************************************)

\* get_free_slots, the filter: the row's date, normalised, equals the
\* formatted date argument and is_booked reads 'false'.
ListMatches(row, fd) ==
    /\ Strftime(ToDatetime(row.date)) = fd
    /\ Lower(row.is_booked) = "false"

RECURSIVE FreeTimes(_, _, _)
\* slots['time'].tolist(): the times of the filtered rows, in file order.
FreeTimes(rows, fd, i) ==
    IF i > Len(rows) THEN <<>>
    ELSE (IF ListMatches(rows[i], fd) THEN <<rows[i].time>> ELSE <<>>)
         \o FreeTimes(rows, fd, i + 1)

\* As GetFreeSlots, but reading the file before parsing the date.
GetFreeSlotsReadsFirst(f, date) ==
    LET x == ParseDayfirst(date)
    IN  IF ~f.exists THEN RetList(<<>>)
        ELSE IF x = ParseError THEN Raise
        ELSE RetList(FreeTimes(f.rows, Strftime(x), 1))

\* get_free_slots(appointment_csv, date): the result (a list, or an error).
GetFreeSlots(f, date) ==
    LET x == ParseDayfirst(date)
    IN  IF x = ParseError THEN Raise
        ELSE IF ~f.exists THEN RetList(<<>>)
        ELSE IF \E i \in 1..Len(f.rows) : ToDatetime(f.rows[i].date) = ParseError
            THEN Raise
        ELSE RetList(FreeTimes(f.rows, Strftime(x), 1))

\* As StoreMatches, but without the test of is_booked.
StoreMatchesAnyRow(row, fd, time) ==
    /\ row.date = fd
    /\ row.time = time

\* store_appointment, the test of the loop: date and time equal as strings
\* and is_booked reads 'false'.
StoreMatches(row, fd, time) ==
    /\ row.date = fd
    /\ row.time = time
    /\ Lower(row.is_booked) = "false"

\* store_appointment, the body of the loop for one row.
StoreRow(row, fd, time, purpose, name) ==
    IF StoreMatches(row, fd, time)
    THEN [row EXCEPT !.is_booked = "True", !.purpose = purpose, !.name = name]
    ELSE row

\* store_appointment, the read loop: the rows as appended, and `updated`.
StoreScan(rows, fd, time, purpose, name) ==
    [rows    |-> [i \in 1..Len(rows) |-> StoreRow(rows[i], fd, time, purpose, name)],
     updated |-> \E i \in 1..Len(rows) : StoreMatches(rows[i], fd, time)]

RECURSIVE ChangedRows(_, _, _)
ChangedRows(old, new, i) ==
    IF i > Len(new) THEN <<>>
    ELSE (IF new[i] # old[i] THEN <<new[i]>> ELSE <<>>) \o ChangedRows(old, new, i + 1)

\* As WriteBack, but writing only the rows the scan changed.
WriteBackChangedRows(f, scan) ==
    IF scan.updated THEN File(TRUE, ChangedRows(f.rows, scan.rows, 1)) ELSE f

\* The whole-file rewrite that follows a scan with updated = True.
WriteBack(f, scan) == IF scan.updated THEN File(TRUE, scan.rows) ELSE f

\* As StoreAppointment, but opening the file in a mode that creates it.
StoreAppointmentCreatesFile(f, date, time, purpose, name) ==
    LET x == ParseDayfirst(date)
        scan == StoreScan(f.rows, Strftime(x), time, purpose, name)
    IN  IF x = ParseError THEN [ret |-> Raise, file |-> f]
        ELSE IF ~f.exists THEN [ret |-> RetBool(FALSE), file |-> File(TRUE, <<>>)]
        ELSE [ret |-> RetBool(scan.updated), file |-> WriteBack(f, scan)]

\* store_appointment(appointment_csv, date, time, purpose, name):
\* the result and the file afterwards.
StoreAppointment(f, date, time, purpose, name) ==
    LET x == ParseDayfirst(date)
        scan == StoreScan(f.rows, Strftime(x), time, purpose, name)
    IN  IF x = ParseError THEN [ret |-> Raise, file |-> f]
        ELSE IF ~f.exists THEN [ret |-> RetBool(FALSE), file |-> f]
        ELSE [ret |-> RetBool(scan.updated), file |-> WriteBack(f, scan)]

\* cancel_appointment, the test of the loop.
CancelMatches(row, fd, name) ==
    /\ row.date = fd
    /\ Lower(Strip(row.name)) = Lower(Strip(name))
    /\ Lower(Strip(row.is_booked)) = "true"

\* As CancelRow, but clearing the purpose only.
CancelRowClearsPurposeOnly(row, fd, name) ==
    IF CancelMatches(row, fd, name)
    THEN [row EXCEPT !.purpose = ""]
    ELSE row

\* As CancelRow, but leaving the name in the freed row.
CancelRowKeepsName(row, fd, name) ==
    IF CancelMatches(row, fd, name)
    THEN [row EXCEPT !.is_booked = "False", !.purpose = ""]
    ELSE row

\* cancel_appointment, the body of the loop for one row.
CancelRow(row, fd, name) ==
    IF CancelMatches(row, fd, name)
    THEN [row EXCEPT !.is_booked = "False", !.name = "", !.purpose = ""]
    ELSE row

\* cancel_appointment, the read loop.
CancelScan(rows, fd, name) ==
    [rows    |-> [i \in 1..Len(rows) |-> CancelRow(rows[i], fd, name)],
     updated |-> \E i \in 1..Len(rows) : CancelMatches(rows[i], fd, name)]

\* cancel_appointment(appointment_csv, date, name).
CancelAppointment(f, date, name) ==
    LET x == ParseDayfirst(date)
        scan == CancelScan(f.rows, Strftime(x), name)
    IN  IF x = ParseError THEN [ret |-> Raise, file |-> f]
        ELSE IF ~f.exists THEN [ret |-> RetBool(FALSE), file |-> f]
        ELSE [ret |-> RetBool(scan.updated), file |-> WriteBack(f, scan)]

(***************************************************************************)
(* State.                                                                  *)
(***************************************************************************)
VARIABLES
    file,       \* the ledger file appointments.csv
    last,       \* the most recent ledger call: arguments, result, file before it
    prev,       \* what the call before `last` was, when it was about the same slot
    proc,       \* per worker process: its store_appointment call in progress
    events,     \* the reads and writes of the file by these calls, in order
    userdata,   \* the session's UserData
    reply,      \* the controller's latest tool call, while nothing followed it
    listed,     \* the slots the session was last told are available
    literal_csv \* the file "appointments.csv", when userdata.appointment_csv
                \* names another file (`file` is the one appointment_csv names)

ledgerVars == <<last, prev>>
raceVars == <<proc, events>>
sessionVars == <<userdata, reply, listed, literal_csv>>
vars == <<file, last, prev, proc, events, userdata, reply, listed, literal_csv>>

Call(op, date, time, purpose, name, ret, pre) ==
    [op |-> op, date |-> date, time |-> time, purpose |-> purpose,
     name |-> name, ret |-> ret, pre |-> pre]

NoCall == Call("none", NotADate, "", "", "", Raise, AbsentFile)

\* History only: the call c made right before a call with the arguments
\* (date, time, name) is recorded by its operation and result when the two
\* have the same date string and, as far as both carry one, the same time
\* and the same name up to case and surrounding blanks.
Unrelated == [op |-> "other", ret |-> Raise]

Before(c, date, time, name) ==
    IF /\ c.op # "none"
       /\ c.date = date
       /\ (c.time = "" \/ time = "" \/ c.time = time)
       /\ (c.name = "" \/ name = "" \/ Lower(Strip(c.name)) = Lower(Strip(name)))
    THEN [op |-> c.op, ret |-> [c.ret EXCEPT !.l = <<>>]]
    ELSE Unrelated

InitFiles == {AbsentFile} \cup {File(TRUE, rows) : rows \in SeqsUpTo(InitRows, MaxRows)}

\* Two worker processes, each serving one session and one booking attempt
\* (booking.py: appointment_saved calls store_appointment on the session's file).
Procs == {1, 2}
SessionName == <<"Bob", "Carol">>
SessionPurpose == <<"dentist", "eye">>

NoScan == [rows |-> <<>>, updated |-> FALSE]

Idle ==
    [pc |-> "idle", date |-> NotADate, time |-> "", purpose |-> "", name |-> "",
     scan |-> NoScan, ret |-> Raise]

\* Python's None, as a date and as a string.
NoDate == DateStr("none", 0, 0)
None == "<None>"

\* The default of UserData.appointment_csv, and the path the cancel tool
\* names.
AppointmentsCsv == "appointments.csv"

\* UserData(ctx=ctx): the fields the tools use, at their defaults.
NewUserData ==
    [appointment_csv |-> AppointmentsCsv,
     selected_date |-> NoDate, selected_time |-> None, purpose |-> None,
     name |-> None, awaiting_confirmation |-> FALSE]

\* A tool call: its name, its arguments, what it said to the user, what it
\* returned ("<raise>" when an exception left the tool), and the session
\* data before it.
Reply(op, date, time, said, ret, pre) ==
    [op |-> op, date |-> date, time |-> time, said |-> said, ret |-> ret, pre |-> pre]

NoReply == Reply("none", NoDate, None, "", "", NewUserData)

Quiet ==
    /\ last = NoCall
    /\ prev = Unrelated
    /\ proc = [p \in Procs |-> Idle]
    /\ events = <<>>
    /\ userdata = NewUserData
    /\ reply = NoReply
    /\ listed = <<>>
    /\ literal_csv = AbsentFile

Init ==
    /\ file \in InitFiles
    /\ Quiet

\* A caller runs get_free_slots(date).
ListFreeSlots(date) ==
    /\ last' = Call("list", date, "", "", "", GetFreeSlots(file, date), file)
    /\ prev' = Before(last, date, "", "")
    /\ UNCHANGED <<file, raceVars, sessionVars>>

\* A caller runs store_appointment(date, time, purpose, name).
Store(date, time, purpose, name) ==
    LET r == StoreAppointment(file, date, time, purpose, name)
    IN  /\ file' = r.file
        /\ last' = Call("store", date, time, purpose, name, r.ret, file)
        /\ prev' = Before(last, date, time, name)
        /\ UNCHANGED <<raceVars, sessionVars>>

\* A caller runs cancel_appointment(date, name).
Cancel(date, name) ==
    LET r == CancelAppointment(file, date, name)
    IN  /\ file' = r.file
        /\ last' = Call("cancel", date, "", "", name, r.ret, file)
        /\ prev' = Before(last, date, "", name)
        /\ UNCHANGED <<raceVars, sessionVars>>

\* The arguments callers pass: every parseable date with every other
\* argument, and the unparseable date once per function.
GoodDates == DateArgs \ {NotADate}

StoreArgs ==
    {<<d, t, p, n>> : d \in GoodDates, t \in Times, p \in Purposes, n \in BookNames}
    \cup {<<NotADate, "10:00", "dentist", "Bob">>}

CancelArgs ==
    {<<d, n>> : d \in GoodDates, n \in CancelNames} \cup {<<NotADate, "BOB">>}

Next ==
    \/ \E date \in DateArgs : ListFreeSlots(date)
    \/ \E a \in StoreArgs : Store(a[1], a[2], a[3], a[4])
    \/ \E a \in CancelArgs : Cancel(a[1], a[2])

Spec == Init /\ [][Next]_vars

(***************************************************************************)
(* Two sessions booking against the same file.  store_appointment takes no *)
(* lock: it reads the whole file (utils.py:62-71), and later, if a row was *)
(* updated, rewrites the whole file from the rows it read (utils.py:76-80).*)
(* Another process can run between the two.                                *)
(***************************************************************************)

\* Process p enters store_appointment: parses the date, opens and reads the
\* file, building `rows` and `updated`.  An unparseable date raises and a
\* missing file returns False at once.
StoreRead(p, date, time, purpose, name) ==
    LET x == ParseDayfirst(date)
        call == [proc[p] EXCEPT !.date = date, !.time = time,
                                !.purpose = purpose, !.name = name]
    IN  /\ proc[p].pc = "idle"
        /\ IF x = ParseError
              THEN /\ proc' = [proc EXCEPT ![p] = [call EXCEPT !.pc = "done", !.ret = Raise]]
                   /\ UNCHANGED events
           ELSE IF ~file.exists
              THEN /\ proc' = [proc EXCEPT ![p] =
                                 [call EXCEPT !.pc = "done", !.ret = RetBool(FALSE)]]
                   /\ UNCHANGED events
           ELSE /\ proc' = [proc EXCEPT ![p] =
                              [call EXCEPT !.pc = "scanned",
                                           !.scan = StoreScan(file.rows, Strftime(x),
                                                              time, purpose, name)]]
                /\ events' = Append(events, <<"read", p>>)
        /\ UNCHANGED <<file, ledgerVars, sessionVars>>

\* Process p leaves store_appointment: rewrites the file from its rows if
\* it updated one, and returns `updated`.
StoreWrite(p) ==
    /\ proc[p].pc = "scanned"
    /\ file' = WriteBack(file, proc[p].scan)
    /\ proc' = [proc EXCEPT ![p] = [@ EXCEPT !.pc = "done",
                                             !.ret = RetBool(proc[p].scan.updated)]]
    /\ events' = Append(events, <<"write", p>>)
    /\ UNCHANGED <<ledgerVars, sessionVars>>

NextRace ==
    \/ \E p \in Procs, date \in DateArgs, time \in Times :
          StoreRead(p, date, time, SessionPurpose[p], SessionName[p])
    \/ \E p \in Procs : StoreWrite(p)

SpecRace == Init /\ [][NextRace]_vars

(***************************************************************************)
(* booking.py: the tools of AppointmentAgent, one session.  Other sessions *)
(* book and cancel in the same file between this session's tool calls.     *)
(***************************************************************************)
CtlDates == {DateStr("dmy", 30, 5), NotADate}
CtlName == "Bob"
CtlPurpose == "dentist"

\* Rows of the file at the start of a session: free slots of 2025-05-30
\* (other sessions book and cancel them as the session goes on).
CtlInitRows == {Row(DateStr("ymd", 30, 5), t, "False", "", "") : t \in Times}

InitCtl ==
    /\ file \in {AbsentFile} \cup {File(TRUE, rows) : rows \in SeqsUpTo(CtlInitRows, MaxRows)}
    /\ Quiet

\* get_available_slots(date)
GetAvailableSlots(date) ==
    LET ud == [userdata EXCEPT !.selected_date = date]
        r == GetFreeSlots(file, date)
    IN  /\ userdata' = ud
        /\ IF ~file.exists
              THEN /\ reply' = Reply("get_available_slots", date, None,
                                     "Sorry, the appointment system is currently unavailable.",
                                     "[]", userdata)
                   /\ listed' = <<>>
           ELSE IF r.kind = "raise"
              THEN /\ reply' = Reply("get_available_slots", date, None,
                                     "Sorry, I encountered an error retrieving slots.",
                                     "[]", userdata)
                   /\ listed' = <<>>
           ELSE /\ reply' = Reply("get_available_slots", date, None,
                                  IF r.l # <<>> THEN "The available slots are"
                                                ELSE "Sorry, there are no available slots",
                                  "slots", userdata)
                /\ listed' = r.l
        /\ UNCHANGED <<file, literal_csv, ledgerVars, raceVars>>

\* select_slot, the membership test: time not in slots.
SlotIsAvailable(time, slots) == time \in Range(slots)

\* As SlotsToCheck, but the list the session was given earlier.
SlotsRemembered(f, date) == RetList(listed)

\* select_slot, the list the time is checked against: fetched anew.
SlotsToCheck(f, date) == GetFreeSlots(f, date)

\* select_slot(time)
SelectSlot(time) ==
    LET r == SlotsToCheck(file, userdata.selected_date)
    IN  /\ IF userdata.selected_date = NoDate
              THEN /\ reply' = Reply("select_slot", NoDate, time,
                                     "Please select a date first.",
                                     "Date not selected", userdata)
                   /\ UNCHANGED userdata
           ELSE IF r.kind = "raise"
              THEN /\ reply' = Reply("select_slot", NoDate, time,
                                     "Sorry, I couldn't verify available slots.",
                                     "Error verifying slots", userdata)
                   /\ UNCHANGED userdata
           ELSE IF ~SlotIsAvailable(time, r.l)
              THEN /\ reply' = Reply("select_slot", NoDate, time,
                                     "Sorry, that is not an available slot",
                                     "Invalid slot selected", userdata)
                   /\ UNCHANGED userdata
           ELSE /\ userdata' = [userdata EXCEPT !.selected_time = time]
                /\ reply' = Reply("select_slot", NoDate, time,
                                  "Okay, you've selected", time, userdata)
        /\ UNCHANGED <<file, listed, literal_csv, ledgerVars, raceVars>>

\* set_purpose(purpose)
SetPurpose(purpose) ==
    /\ userdata' = [userdata EXCEPT !.purpose = purpose]
    /\ reply' = Reply("set_purpose", NoDate, None, "Got it. What's your name?",
                      purpose, userdata)
    /\ UNCHANGED <<file, listed, literal_csv, ledgerVars, raceVars>>

\* set_name_and_confirm(name)
SetNameAndConfirm(name) ==
    /\ userdata' = [userdata EXCEPT !.name = name, !.awaiting_confirmation = TRUE]
    /\ reply' = Reply("set_name_and_confirm", NoDate, None, "Confirming your appointment",
                      "Confirming your appointment", userdata)
    /\ UNCHANGED <<file, listed, literal_csv, ledgerVars, raceVars>>

\* appointment_saved(date, time, purpose, name): the arguments are the
\* tool call's, not the session's.  An exception of store_appointment
\* leaves the tool before anything is said.
AppointmentSaved(date, time, purpose, name) ==
    LET r == StoreAppointment(file, date, time, purpose, name)
        msg == IF r.ret.b THEN "The appointment has been saved."
                          ELSE "There was an error saving the appointment."
    IN  /\ file' = r.file
        /\ reply' = IF r.ret.kind = "raise"
                    THEN Reply("appointment_saved", date, time, "", "<raise>", userdata)
                    ELSE Reply("appointment_saved", date, time, msg, msg, userdata)
        /\ UNCHANGED <<userdata, listed, literal_csv, ledgerVars, raceVars>>

\* cancel_appointment(name, date): on "appointments.csv", which is the
\* session's file when userdata.appointment_csv has that value.
CancelAppointmentTool(name, date) ==
    LET appointment_csv == AppointmentsCsv
        same == userdata.appointment_csv = appointment_csv
        r == CancelAppointment(IF same THEN file ELSE literal_csv, date, name)
        msg == IF r.ret.b THEN "Your appointment has been canceled."
                          ELSE "Could not find an appointment to cancel."
    IN  /\ IF same THEN file' = r.file /\ UNCHANGED literal_csv
                   ELSE literal_csv' = r.file /\ UNCHANGED file
        /\ reply' = IF r.ret.kind = "raise"
                    THEN Reply("cancel_appointment", date, None, "", "<raise>", userdata)
                    ELSE Reply("cancel_appointment", date, None, msg, msg, userdata)
        /\ UNCHANGED <<userdata, listed, ledgerVars, raceVars>>

\* Another session books a slot of the file.
OtherSessionBooks(date, time) ==
    /\ file' = StoreAppointment(file, date, time, "dentist", "Alice").file
    /\ file' # file
    /\ reply' = NoReply
    /\ UNCHANGED <<userdata, listed, literal_csv, ledgerVars, raceVars>>

\* Another session cancels its bookings of a date.
OtherSessionCancels(date, name) ==
    /\ file' = CancelAppointment(file, date, name).file
    /\ file' # file
    /\ reply' = NoReply
    /\ UNCHANGED <<userdata, listed, literal_csv, ledgerVars, raceVars>>

NextCtl ==
    \/ \E date \in CtlDates : GetAvailableSlots(date)
    \/ \E time \in Times : SelectSlot(time)
    \/ SetPurpose(CtlPurpose)
    \/ SetNameAndConfirm(CtlName)
    \/ \E date \in CtlDates, time \in Times : AppointmentSaved(date, time, CtlPurpose, CtlName)
    \/ \E date \in CtlDates : CancelAppointmentTool(CtlName, date)
    \/ \E time \in Times : OtherSessionBooks(DateStr("dmy", 30, 5), time)
    \/ OtherSessionCancels(DateStr("dmy", 30, 5), "Alice")

SpecCtl == InitCtl /\ [][NextCtl]_vars

(***************************************************************************)
(* booking.py: a session whose UserData names its file.  appointment_csv   *)
(* is a field of UserData (booking.py:28); the file "appointments.csv" of  *)
(* the working directory is then another file, absent or holding the       *)
(* bookings made through it.                                               *)
(***************************************************************************)
Paths == {AppointmentsCsv, "clinic.csv"}

\* "appointments.csv" when it is not the session's file.
LiteralFiles ==
    {AbsentFile,
     File(TRUE, <<Row(DateStr("ymd", 30, 5), "10:00", "True", CtlPurpose, CtlName)>>)}

InitPaths ==
    /\ file \in {AbsentFile} \cup {File(TRUE, rows) : rows \in SeqsUpTo(CtlInitRows, MaxRows)}
    /\ userdata \in {[NewUserData EXCEPT !.appointment_csv = p] : p \in Paths}
    /\ literal_csv \in IF userdata.appointment_csv = AppointmentsCsv
                          THEN {AbsentFile} ELSE LiteralFiles
    /\ last = NoCall
    /\ prev = Unrelated
    /\ proc = [p \in Procs |-> Idle]
    /\ events = <<>>
    /\ reply = NoReply
    /\ listed = <<>>

NextPaths ==
    \/ \E date \in CtlDates : GetAvailableSlots(date)
    \/ \E time \in Times : SelectSlot(time)
    \/ \E date \in CtlDates, time \in Times : AppointmentSaved(date, time, CtlPurpose, CtlName)
    \/ \E date \in CtlDates : CancelAppointmentTool(CtlName, date)

SpecPaths == InitPaths /\ [][NextPaths]_vars

(***************************************************************************)
(* Vocabulary of the properties.                                           *)
(***************************************************************************)
Parseable(date) == ParseDayfirst(date) # ParseError

\* The canonical writing of the date a call's argument is parsed to.
Formatted(date) == Strftime(ParseDayfirst(date))

\* A row counts as booked when is_booked reads true, as free when it reads false.
IsBooked(row) == Lower(Strip(row.is_booked)) = "true"
IsFree(row) == Lower(row.is_booked) = "false"

SameName(a, b) == Lower(Strip(a)) = Lower(Strip(b))

Succeeded(c) == c.ret = RetBool(TRUE)

\* The (date, time) column pair of the file, row by row.
Slots(f) == [i \in 1..Len(f.rows) |-> <<f.rows[i].date, f.rows[i].time>>]

(***************************************************************************)
(* C1.  If store_appointment(date, time, purpose, name) returns true, a    *)
(* get_free_slots(date) call made right after it does not contain time,    *)
(* whatever the table: duplicates and non-canonical stored dates included. *)
(* Stated on the step from the store call to the list call.                *)
(***************************************************************************)
C1_BookedTimeNotListed ==
    [][(/\ last.op = "store" /\ Succeeded(last)
        /\ last'.op = "list" /\ last'.date = last.date)
       => last.time \notin Range(last'.ret.l)]_vars

(***************************************************************************)
(* C2.  If cancel_appointment(date, name) returns true, a get_free_slots   *)
(* (date) call made right after it contains the time of every row that was *)
(* booked on that date under that name before the cancel.                  *)
(***************************************************************************)
BookedOnUnder(row, date, name) ==
    /\ DayOf(row.date) = DayOf(date)
    /\ IsBooked(row)
    /\ SameName(row.name, name)

C2_CancelledTimesListed ==
    [][(/\ last.op = "cancel" /\ Succeeded(last)
        /\ last'.op = "list" /\ last'.date = last.date)
       => \A i \in 1..Len(last.pre.rows) :
             BookedOnUnder(last.pre.rows[i], last.date, last.name)
                => last.pre.rows[i].time \in Range(last'.ret.l)]_vars

(***************************************************************************)
(* C3.  Every time get_free_slots returns comes from a row that is not     *)
(* booked and whose date is the requested date; there are as many times in *)
(* the result as there are such rows.                                      *)
(***************************************************************************)
FreeRowsOn(f, date) ==
    {i \in 1..Len(f.rows) : IsFree(f.rows[i]) /\ DayOf(f.rows[i].date) = DayOf(date)}

C3_ListedTimesAreFreeOnDate ==
    (last.op = "list" /\ last.ret.kind = "list")
        => /\ \A k \in 1..Len(last.ret.l) :
                 \E i \in FreeRowsOn(last.pre, last.date) :
                    last.pre.rows[i].time = last.ret.l[k]
           /\ Len(last.ret.l) = Cardinality(FreeRowsOn(last.pre, last.date))

(***************************************************************************)
(* C4.  Two booking attempts for the same slot against the same file.      *)
(* When both return true, both had read the file before either wrote it,   *)
(* and the file is the later writer's: every row the earlier writer booked *)
(* carries the later one's purpose and name (the earlier booking is lost). *)
(* When one attempt starts after the other has returned true, it returns   *)
(* false.                                                                  *)
(***************************************************************************)
RECURSIVE At(_, _, _)
\* The position of the event e in the sequence q from i on, 0 when absent.
At(q, e, i) ==
    IF i > Len(q) THEN 0
    ELSE IF q[i] = e THEN i
    ELSE At(q, e, i + 1)

ReadAt(p) == At(events, <<"read", p>>, 1)
WriteAt(p) == At(events, <<"write", p>>, 1)

SameSlot(p, q) ==
    /\ Parseable(proc[p].date) /\ Parseable(proc[q].date)
    /\ Formatted(proc[p].date) = Formatted(proc[q].date)
    /\ proc[p].time = proc[q].time

Returned(p, b) == proc[p].pc = "done" /\ proc[p].ret = RetBool(b)

\* Both attempts returned true for the same slot; w wrote after e.
BothBooked(e, w) ==
    /\ e # w
    /\ SameSlot(e, w)
    /\ Returned(e, TRUE) /\ Returned(w, TRUE)
    /\ WriteAt(e) < WriteAt(w)

\* The rows e's rewrite carried e's booking in.
BookedBy(e) ==
    {i \in 1..Len(proc[e].scan.rows) :
        /\ proc[e].scan.rows[i].name = SessionName[e]
        /\ proc[e].scan.rows[i].purpose = SessionPurpose[e]}

C4_ConcurrentBookingsRace ==
    \A e \in Procs, w \in Procs :
       /\ BothBooked(e, w)
             => /\ ReadAt(e) < WriteAt(w) /\ ReadAt(w) < WriteAt(e)
                /\ file.rows = proc[w].scan.rows
                /\ BookedBy(e) # {}
                /\ \A i \in BookedBy(e) :
                      /\ file.rows[i].name = SessionName[w]
                      /\ file.rows[i].purpose = SessionPurpose[w]
       /\ (/\ e # w /\ SameSlot(e, w)
           /\ Returned(e, TRUE)
           /\ proc[w].pc = "done" /\ ReadAt(w) > WriteAt(e))
             => Returned(w, FALSE)

\* Both attempts returned true and the file holds one booking only.
C4_Witness ==
    \E e \in Procs, w \in Procs :
       /\ BothBooked(e, w)
       /\ \E i \in BookedBy(e) : file.rows[i].name = SessionName[w]
       /\ \A i \in 1..Len(file.rows) : file.rows[i].name # SessionName[e]

(***************************************************************************)
(* C5.  When no row has the date (as formatted), the time and is_booked    *)
(* false, store_appointment returns false and the file is as it was.       *)
(***************************************************************************)
FreeRowFor(row, date, time) ==
    /\ row.date = Formatted(date)
    /\ row.time = time
    /\ IsFree(row)

NoFreeRowFor(f, date, time) ==
    \A i \in 1..Len(f.rows) : ~FreeRowFor(f.rows[i], date, time)

C5_NoFreeRowNoWrite ==
    (/\ last.op = "store" /\ Parseable(last.date)
     /\ NoFreeRowFor(last.pre, last.date, last.time))
        => last.ret = RetBool(FALSE) /\ file = last.pre

\* A store on a slot whose only row with that date and time is booked.
C5_Witness ==
    /\ last.op = "store"
    /\ Parseable(last.date)
    /\ NoFreeRowFor(last.pre, last.date, last.time)
    /\ \E i \in 1..Len(last.pre.rows) :
          /\ last.pre.rows[i].date = Formatted(last.date)
          /\ last.pre.rows[i].time = last.time
          /\ IsBooked(last.pre.rows[i])
    /\ last.ret = RetBool(FALSE)

(***************************************************************************)
(* C6.  cancel_appointment(date, name) called twice in a row: the second   *)
(* call returns false and leaves the file as the first call left it,       *)
(* whether the first call returned true or false.                          *)
(***************************************************************************)
C6_SecondCancelFalse ==
    (last.op = "cancel" /\ prev.op = "cancel" /\ prev.ret.kind = "bool")
        => last.ret = RetBool(FALSE) /\ file = last.pre

\* The second of two cancels, the first of which cancelled something.
C6_Witness ==
    /\ last.op = "cancel" /\ prev.op = "cancel"
    /\ prev.ret = RetBool(TRUE)
    /\ last.ret = RetBool(FALSE)
    /\ \E i \in 1..Len(file.rows) : file.rows[i].date = Formatted(last.date)

(***************************************************************************)
(* C7.  No call adds, removes or reorders rows or changes a row's date or  *)
(* time: the (date, time) pairs after a call are those before it, so they  *)
(* are the same in every reachable state.                                  *)
(***************************************************************************)
C7_RowsKeepDateAndTime ==
    last.op # "none"
        => /\ file.exists = last.pre.exists
           /\ Slots(file) = Slots(last.pre)

\* A cancel that rewrote the file, right after a store that rewrote it.
C7_Witness ==
    /\ last.op = "cancel" /\ Succeeded(last)
    /\ prev.op = "store" /\ prev.ret = RetBool(TRUE)
    /\ Len(file.rows) = MaxRows
    /\ file # last.pre

(***************************************************************************)
(* C8.  With the file absent and a parseable date, get_free_slots returns  *)
(* the empty list, store_appointment and cancel_appointment return false,  *)
(* none raises, and the file is still absent afterwards.                   *)
(***************************************************************************)
C8_AbsentFile ==
    (last.op # "none" /\ ~last.pre.exists /\ Parseable(last.date))
        => /\ last.op = "list" => last.ret = RetList(<<>>)
           /\ last.op \in {"store", "cancel"} => last.ret = RetBool(FALSE)
           /\ file = AbsentFile

\* A store against the absent file, after a list against it.
C8_Witness ==
    /\ last.op = "store" /\ ~last.pre.exists /\ Parseable(last.date)
    /\ prev.op = "list"
    /\ last.ret = RetBool(FALSE)

(***************************************************************************)
(* C9.  With a date that cannot be parsed, each of the three functions     *)
(* raises, whether or not the file exists, and the file is unchanged.      *)
(***************************************************************************)
C9_BadDateRaises ==
    (last.op # "none" /\ ~Parseable(last.date))
        => last.ret = Raise /\ file = last.pre

\* get_free_slots("not-a-date") with the file absent.
C9_Witness ==
    /\ last.op = "list" /\ ~Parseable(last.date)
    /\ ~last.pre.exists
    /\ last.ret = Raise

(***************************************************************************)
(* C10.  select_slot(time) stores the time in the session exactly when a   *)
(* date was selected before and the file, as it is during the call, has a  *)
(* free row of that date with that time; in every other case (no date, an  *)
(* unparseable date, no file, time not free) the session is as it was.  A  *)
(* time that was listed as available but is no longer free is rejected.    *)
(***************************************************************************)
FreeNow(date, time) ==
    /\ date # NoDate
    /\ Parseable(date)
    /\ file.exists
    /\ \E i \in 1..Len(file.rows) :
          /\ IsFree(file.rows[i])
          /\ Strftime(ToDatetime(file.rows[i].date)) = Formatted(date)
          /\ file.rows[i].time = time

C10_SelectSlotChecksLedger ==
    reply.op = "select_slot"
        => /\ IF FreeNow(reply.pre.selected_date, reply.time)
                 THEN /\ userdata = [reply.pre EXCEPT !.selected_time = reply.time]
                      /\ reply.ret = reply.time
                 ELSE /\ userdata = reply.pre
                      /\ reply.ret \in {"Date not selected", "Error verifying slots",
                                        "Invalid slot selected"}
           /\ reply.pre.selected_date = NoDate => reply.ret = "Date not selected"

\* select_slot rejected a time the session had been told was available:
\* the slot was booked between get_available_slots and select_slot.
C10_Witness ==
    /\ reply.op = "select_slot"
    /\ reply.time \in Range(listed)
    /\ reply.ret = "Invalid slot selected"
    /\ userdata.selected_time # reply.time
    /\ \E i \in 1..Len(file.rows) :
          file.rows[i].time = reply.time /\ file.rows[i].name = "Alice"

(***************************************************************************)
(* C11.  After a date input that found no free slot (empty list, missing   *)
(* file or lookup error) the session has no selected date: a select_slot   *)
(* that follows it, with no date input that found slots in between, is     *)
(* rejected as "Date not selected", also when a slot of that date has been *)
(* freed since.                                                            *)
(***************************************************************************)
\* The session's latest date input, if any, found no slot (selected_date
\* and listed are written by get_available_slots only).
NoSlotsFound(ud) == ud.selected_date # NoDate /\ listed = <<>>

C11_NoSlotsKeepsAwaitingDate ==
    (reply.op = "select_slot" /\ NoSlotsFound(reply.pre))
        => /\ reply.ret = "Date not selected"
           /\ userdata.selected_time = None

(***************************************************************************)
(* C12.  The session books only in AwaitingConfirmation: whenever          *)
(* appointment_saved calls store_appointment, a date, a slot, a purpose    *)
(* and a name have been collected by the session, each after the one       *)
(* before it, and awaiting_confirmation is set.                            *)
(***************************************************************************)
HasDate(ud) == ud.selected_date # NoDate
HasSlot(ud) == HasDate(ud) /\ ud.selected_time # None
HasPurpose(ud) == HasSlot(ud) /\ ud.purpose # None
HasName(ud) == HasPurpose(ud) /\ ud.name # None
AwaitingConfirmation(ud) == HasName(ud) /\ ud.awaiting_confirmation

C12_BookingFlowLinear ==
    reply.op = "appointment_saved" => AwaitingConfirmation(reply.pre)

(***************************************************************************)
(* C13.  A call of get_available_slots, select_slot, appointment_saved or  *)
(* cancel_appointment whose ledger call failed (returned false or nothing, *)
(* or raised) says a message to the user and returns a status: no          *)
(* exception of the ledger leaves the tool.                                *)
(***************************************************************************)
LedgerTools ==
    {"get_available_slots", "select_slot", "appointment_saved", "cancel_appointment"}

\* The tool call's ledger call gave what was asked for: slots, the slot
\* checked, the booking, the cancellation.
LedgerGave(r) ==
    \/ r.op = "get_available_slots" /\ r.ret = "slots" /\ listed # <<>>
    \/ r.op = "select_slot" /\ r.ret = r.time
    \/ r.op = "appointment_saved" /\ r.ret = "The appointment has been saved."
    \/ r.op = "cancel_appointment" /\ r.ret = "Your appointment has been canceled."

C13_LedgerFailureIsSpoken ==
    (reply.op \in LedgerTools /\ ~LedgerGave(reply))
        => reply.said # "" /\ reply.ret # "<raise>"

(***************************************************************************)
(* C14.  Book, then cancel, is a round trip.  On a table where a row of    *)
(* the date and time is free with empty purpose and name, and no row of    *)
(* the date is booked under the name, store_appointment(date, time,        *)
(* purpose, name) returns true; cancel_appointment(date, name') right      *)
(* after it, with name' the name up to case and surrounding blanks,        *)
(* returns true and leaves the table as it was before the store.           *)
(***************************************************************************)
CleanFreeRowFor(row, date, time) ==
    /\ DayOf(row.date) = DayOf(date)
    /\ row.time = time
    /\ IsFree(row)
    /\ row.purpose = "" /\ row.name = ""

RoundTripTable(f, date, time, name) ==
    /\ f.exists
    /\ Parseable(date)
    /\ \E i \in 1..Len(f.rows) : CleanFreeRowFor(f.rows[i], date, time)
    /\ \A i \in 1..Len(f.rows) : ~BookedOnUnder(f.rows[i], date, name)

C14_BookCancelRoundTrip ==
    [][/\ (/\ last'.op = "store"
           /\ RoundTripTable(last'.pre, last'.date, last'.time, last'.name))
          => Succeeded(last')
       /\ (/\ last.op = "store"
           /\ RoundTripTable(last.pre, last.date, last.time, last.name)
           /\ last'.op = "cancel"
           /\ last'.date = last.date
           /\ SameName(last'.name, last.name))
          => Succeeded(last') /\ file' = last.pre]_vars

(***************************************************************************)
(* C15.  A store_appointment that returned true changed exactly the rows   *)
(* that were free on the date at the time; a cancel_appointment that       *)
(* returned true changed exactly the rows that were booked on the date     *)
(* under the name (up to case and surrounding blanks).  Every other row    *)
(* (another date, another time, another name) is as it was.                *)
(***************************************************************************)
FreeOnAt(row, date, time) ==
    /\ DayOf(row.date) = DayOf(date)
    /\ row.time = time
    /\ IsFree(row)

Changed(i) == file.rows[i] # last.pre.rows[i]

C15_OnlyMatchingRowsChange ==
    /\ (last.op = "store" /\ Succeeded(last))
          => \A i \in 1..Len(last.pre.rows) :
                Changed(i) <=> FreeOnAt(last.pre.rows[i], last.date, last.time)
    /\ (last.op = "cancel" /\ Succeeded(last))
          => \A i \in 1..Len(last.pre.rows) :
                Changed(i) <=> BookedOnUnder(last.pre.rows[i], last.date, last.name)

(***************************************************************************)
(* C16.  From a file in which every row that is not booked has an empty    *)
(* purpose and an empty name, every file reached by store_appointment and  *)
(* cancel_appointment calls, successful or not, is such a file.            *)
(***************************************************************************)
C16_FreeRowsAreClean ==
    \A i \in 1..Len(file.rows) :
       IsFree(file.rows[i]) => file.rows[i].purpose = "" /\ file.rows[i].name = ""

\* A cancel freed a row that an earlier call of the run had booked under
\* Bob, and the file has MaxRows rows.
C16_Witness ==
    /\ last.op = "cancel" /\ Succeeded(last)
    /\ Len(file.rows) = MaxRows
    /\ \E i \in 1..Len(file.rows) :
          /\ last.pre.rows[i].name = "Bob"
          /\ IsBooked(last.pre.rows[i])
          /\ IsFree(file.rows[i])
          /\ file.rows[i].name = ""

(***************************************************************************)
(* C17.  Listing and booking agree: when get_free_slots(date) returned a   *)
(* list containing t, a store_appointment(date, t, purpose, name) made     *)
(* right after it returns true, whatever the table and the date string,    *)
(* rows whose stored date is not written as YYYY-MM-DD included.           *)
(***************************************************************************)
C17_ListedSlotCanBeBooked ==
    [][(/\ last.op = "list" /\ last.ret.kind = "list"
        /\ last'.op = "store" /\ last'.date = last.date
        /\ last'.time \in Range(last.ret.l))
       => Succeeded(last')]_vars

(***************************************************************************)
(* C18.  Calls made one after the other never overwrite a booking.  The    *)
(* purpose and name of a booked row change only through a successful       *)
(* cancel_appointment for that row's date and name; a store_appointment    *)
(* for a date and time whose rows are all booked returns false and leaves  *)
(* the file as it was.                                                     *)
(***************************************************************************)
BookingChanged(i) ==
    /\ IsBooked(last.pre.rows[i])
    /\ \/ file.rows[i].purpose # last.pre.rows[i].purpose
       \/ file.rows[i].name # last.pre.rows[i].name

OnAt(row, date, time) == DayOf(row.date) = DayOf(date) /\ row.time = time

AlreadyBooked(f, date, time) ==
    /\ \E i \in 1..Len(f.rows) : OnAt(f.rows[i], date, time)
    /\ \A i \in 1..Len(f.rows) : OnAt(f.rows[i], date, time) => IsBooked(f.rows[i])

C18_BookingNotOverwritten ==
    /\ \A i \in 1..Len(last.pre.rows) :
          BookingChanged(i)
             => /\ last.op = "cancel" /\ Succeeded(last)
                /\ BookedOnUnder(last.pre.rows[i], last.date, last.name)
    /\ (/\ last.op = "store" /\ Parseable(last.date)
        /\ AlreadyBooked(last.pre, last.date, last.time))
          => last.ret = RetBool(FALSE) /\ file = last.pre

(***************************************************************************)
(* C19.  In a session the cancel tool works on the file the other tools    *)
(* work on, whatever userdata.appointment_csv is: it reads and rewrites no *)
(* other file, and a cancel_appointment(name, date) right after an         *)
(* appointment_saved(date, time, purpose, name) that saved the booking     *)
(* cancels it.                                                             *)
(***************************************************************************)
C19_CancelUsesSessionFile ==
    [][reply'.op = "cancel_appointment"
          => /\ literal_csv' = literal_csv
             /\ (/\ reply.op = "appointment_saved"
                 /\ reply.ret = "The appointment has been saved."
                 /\ reply'.date = reply.date)
                   => /\ reply'.ret = "Your appointment has been canceled."
                      /\ \A i \in 1..Len(file'.rows) :
                            ~BookedOnUnder(file'.rows[i], reply.date, CtlName)]_vars

====
